---- MODULE Spec2Model ----
(***************************************************************************)
(* LoadNCache (monesidn/load-n-cache): one instance caching the promise of *)
(* one asynchronous value, with optional persistence and autoflush.        *)
(*                                                                         *)
(* The instance is modelled at the granularity of JavaScript's cooperative *)
(* scheduling: every action is the code that runs between two suspension   *)
(* points (an await, a timer, a caller's turn).                            *)
(*                                                                         *)
(* Values are integers: the k-th invocation of the loader settles with the *)
(* value (or rejection reason) k, the persisted value is PersistedValue    *)
(* and the TypeError thrown by the runtime is TypeErrorReason.             *)
(***************************************************************************)
EXTENDS Integers, Sequences, FiniteSets, TLC

\* ---------------------------------------------------------------- bounds
MaxLoads == 2        \* load sequences started by get() in one behaviour
MaxPend == 1         \* flush()/refresh() calls suspended at the same time
MaxTime == 2         \* the clock stops here

\* ------------------------------------------------------- fixed test data
Ttl == 1             \* the autoFlush number of the instances with a policy
InitNow == Ttl       \* the clock at construction: a record of time 0 expires
PersistedValue == 0  \* the value of a record found in the store
AbsentValue == -2    \* the value of a record without a value member
TypeErrorReason == -1

VARIABLES
    cfg,        \* this.config as resolved by the constructor
    now,        \* new Date().getTime()
    storage,    \* the item under persistenceKey in the browser storage
    promise,    \* this.promise: 0 is undefined, else the load sequence's id
    metadata,   \* this.metadata: 0 is undefined, else a PromiseWithMetadata
    firstLoad,  \* this.firstLoad
    seqs,       \* the load sequences: seqs[p] runs behind promise p
    metas,      \* the PromiseWithMetadata objects, by identity
    timers,     \* pending setTimeout callbacks of DefaultAutoflushManager
    pend,       \* how many flush()/refresh() calls are suspended, by place
    calls,      \* how often each collaborator was called
    events,     \* how often each event was emitted
    emitted,    \* the events emitted by the last operation, in order
    saved,      \* the arguments of the saveValue calls, in order
    op          \* the operation that produced this state

vars == <<cfg, now, storage, promise, metadata, firstLoad, seqs, metas,
          timers, pend, calls, events, emitted, saved, op>>

\* ------------------------------------------------------------ JS values
\* What loadValue() can resolve to: undefined, an object without a numeric
\* ts, or a TimestampedValue.
Undefined == [obj |-> FALSE, tsnum |-> FALSE, ts |-> 0, value |-> 0]
Malformed == [obj |-> TRUE, tsnum |-> FALSE, ts |-> 0, value |-> 0]
TsValue(ts, value) == [obj |-> TRUE, tsnum |-> TRUE, ts |-> ts, value |-> value]

\* (variant: a record without a value member is not a TimestampedValue)
isTimestampedValueDefined(obj) ==
    obj.obj /\ obj.tsnum /\ obj.value # AbsentValue

\* isTimestampedValue: return obj && typeof obj.ts === 'number'
isTimestampedValue(obj) == obj.obj /\ obj.tsnum

Fulfilled(v) == [state |-> "fulfilled", val |-> v]
Rejected(r) == [state |-> "rejected", val |-> r]
Pending == [state |-> "pending", val |-> 0]

\* -------------------------------------------------------- configuration
StoreKinds == {"noop", "browser", "throwing", "rejecting", "clearFails"}

\* (variant: every number but 0 makes a DefaultAutoflushManager)
autoflushManagerTruthy == cfg.autoFlush # 0

\* constructor: a number <= 0 leaves this.autoflushManager undefined, as an
\* absent autoFlush does (modelled as 0); a number > 0 makes a
\* DefaultAutoflushManager of that ttl.
autoflushManager == cfg.autoFlush > 0

\* The configurations: every store with and without a time to live; the
\* instances with disableEvents use the default store, the instance with a
\* negative autoFlush the browser storage.
Configs ==
    {c \in [disableEvents : BOOLEAN, autoFlush : {-Ttl, 0, Ttl},
            persistence : StoreKinds] :
        /\ c.disableEvents => c.persistence = "noop"
        /\ c.autoFlush < 0 => c.persistence = "browser"}

InitialItems(kind) ==
    CASE kind = "browser" ->
            {Undefined, Malformed, TsValue(InitNow - Ttl, AbsentValue),
             TsValue(InitNow - Ttl + 1, PersistedValue)}
      [] kind = "clearFails" ->
            {Undefined, TsValue(InitNow - Ttl + 1, PersistedValue)}
      [] OTHER -> {Undefined}

\* where a call can be suspended: "flush" is a flush() at await
\* safelyCallClear(), "refresh" the flush() of a refresh() at the same await,
\* "get" a refresh() at await this.flush() whose flush() has returned.
PendPlaces == {"flush", "refresh", "get"}

EventNames == {"before-load", "after-load", "before-flush", "after-flush"}

\* loader .. flushed count the calls of the collaborators; removed counts the
\* flushes that removed an outcome; flushedArg is the outcome passed to the
\* latest call of flushed (0: none yet).
ZeroCalls ==
    [loader |-> 0, loadValue |-> 0, saveValue |-> 0, clear |-> 0,
     isExpired |-> 0, fetched |-> 0, flushed |-> 0,
     removed |-> 0, flushedArg |-> 0]

Init ==
    /\ cfg \in Configs
    /\ now = InitNow
    /\ storage \in InitialItems(cfg.persistence)
    /\ promise = 0
    /\ metadata = 0
    /\ firstLoad = TRUE
    /\ seqs = <<>>
    /\ metas = <<>>
    /\ timers = {}
    /\ pend = [k \in PendPlaces |-> 0]
    /\ calls = ZeroCalls
    /\ events = [n \in EventNames |-> 0]
    /\ emitted = <<>>
    /\ saved = <<>>
    /\ op = [name |-> "init", p |-> 0, eff |-> FALSE]

\* ------------------------------------------------------------- helpers
Bump(c, f) == [c EXCEPT ![f] = @ + 1]

Max(a, b) == IF a >= b THEN a ELSE b

\* (variant: nothing is ever emitted)
EmitQuiet(name, slot, by) ==
    /\ emitted' = <<>>
    /\ UNCHANGED events

\* (variant: disableEvents is ignored)
EmitAlways(name, slot, by) ==
    /\ emitted' = <<[name |-> name, slot |-> slot, by |-> by]>>
    /\ events' = [events EXCEPT ![name] = @ + 1]

\* if (!this.config.disableEvents) this.emit(name, this). slot is
\* this.promise as a listener sees it, by the load sequence that emits (0:
\* none).
Emit(name, slot, by) ==
    IF cfg.disableEvents
    THEN /\ emitted' = <<>>
         /\ UNCHANGED events
    ELSE /\ emitted' = <<[name |-> name, slot |-> slot, by |-> by]>>
         /\ events' = [events EXCEPT ![name] = @ + 1]

NoEmit ==
    /\ emitted' = <<>>
    /\ UNCHANGED events

\* persistenceManager.loadValue(): NoopManager resolves to undefined, the
\* browser storages to the parsed item; the throwing store throws. The
\* promise of the rejecting store rejects: await throws into the catch block
\* of loadNewValue(), which goes on to the loader as it does for undefined.
loadValueThrows == cfg.persistence = "throwing"

loadValueResult ==
    IF cfg.persistence \in {"browser", "clearFails"} THEN storage ELSE Undefined

\* persistenceManager.saveValue(tv): the browser storages set the item (a
\* value that is undefined is left out by JSON.stringify and absent again
\* after JSON.parse); a throw or a rejection is caught by safelyCallPersist.
saveValueItem(tv) ==
    IF cfg.persistence \in {"browser", "clearFails"} THEN tv ELSE storage

\* (variant: clear() leaves the item in the storage)
clearItemKept == storage

\* persistenceManager.clear(): the browser storage removes the item; a store
\* whose clear throws or rejects keeps it, safelyCallClear catches the error.
clearItem == IF cfg.persistence = "browser" THEN Undefined ELSE storage

\* the stores whose clear() throws or rejects
clearThrows == cfg.persistence \in {"throwing", "rejecting", "clearFails"}

\* (variant: an error of clear() escapes safelyCallClear)
safelyCallClearLeaks == ~clearThrows

\* safelyCallClear: try { await clear() } catch (err) { console.warn(...) }
\* returns normally whatever clear() does.
safelyCallClearCatches == TRUE

\* DefaultAutoflushManager.computeTtl
computeTtl(timestamp) == (timestamp + cfg.autoFlush) - now

\* (variant: a record is still valid at the instant its time to live ends)
isExpiredStrict(completedAt) == computeTtl(completedAt) < 0

\* DefaultAutoflushManager.isExpired
isExpired(completedAt) == computeTtl(completedAt) <= 0

\* (variant: the delay is the whole time to live, counted from the call)
TimerAtFromNow(completedAt) == now + cfg.autoFlush

\* setTimeout(flushCb, delay) runs flushCb in a later turn, not before delay
\* has elapsed (a delay <= 0 is a delay of 0).
TimerAt(completedAt) == now + Max(0, computeTtl(completedAt))

\* (variant: a restored outcome is stamped with the time of the restore)
FromTimestampedValueRestamped(tv, p) ==
    [resolved |-> TRUE, rejected |-> FALSE, completedAt |-> now,
     promise |-> Fulfilled(tv.value), value |-> tv.value,
     restored |-> TRUE, by |-> p]

\* PromiseWithMetadata.from(TimestampedValue)
FromTimestampedValue(tv, p) ==
    [resolved |-> TRUE, rejected |-> FALSE, completedAt |-> tv.ts,
     promise |-> Fulfilled(tv.value), value |-> tv.value,
     restored |-> TRUE, by |-> p]

\* (variant: a promise fulfilled with no value does not count as resolved)
FromPromiseTruthy(settled, p) ==
    [resolved |-> settled.state = "fulfilled" /\ settled.val # AbsentValue,
     rejected |-> settled.state # "fulfilled",
     completedAt |-> now, promise |-> settled,
     value |-> IF settled.state = "fulfilled" THEN settled.val ELSE 0,
     restored |-> FALSE, by |-> p]

\* (variant: the outcome is stamped with the time the loader was invoked)
FromPromiseAtStart(settled, p) ==
    [resolved |-> settled.state = "fulfilled",
     rejected |-> settled.state # "fulfilled",
     completedAt |-> seqs[p].at, promise |-> settled,
     value |-> IF settled.state = "fulfilled" THEN settled.val ELSE 0,
     restored |-> FALSE, by |-> p]

\* PromiseWithMetadata.from(Promise), once the promise has settled
FromPromise(settled, p) ==
    [resolved |-> settled.state = "fulfilled",
     rejected |-> settled.state # "fulfilled",
     completedAt |-> now, promise |-> settled,
     value |-> IF settled.state = "fulfilled" THEN settled.val ELSE 0,
     restored |-> FALSE, by |-> p]

\* (variant: rejected promises are handed to saveValue as well)
HasTimestampedValueAlways(m) == TRUE

\* PromiseWithMetadata.timestampedValue is set iff the promise resolved
HasTimestampedValue(m) == m.resolved

\* (variant: the record is stamped with the time of saving)
timestampedValueNow(m) == TsValue(now, m.value)

\* PromiseWithMetadata constructor: {ts: this.completedAt, value: value}
timestampedValue(m) == TsValue(m.completedAt, m.value)

\* (variant: get() never finds the slot occupied)
SlotEmptyAlways == TRUE

\* get(): if (!this.promise)
SlotEmpty == promise = 0

\* (variant: flush() without its guard)
NothingToFlushNever == FALSE

\* flush(): if (!this.metadata) return;
NothingToFlush == metadata = 0

\* (variant: flush() leaves this.metadata as it is)
FlushedMetadataKept == metadata

\* flush(): this.metadata = undefined;
FlushedMetadata == 0

\* (variant: the callback never finds its outcome current)
FlushCbGuardNever(m) == FALSE

\* (variant: the timer calls flush() whatever the current outcome is)
FlushCbGuardAlways(m) == TRUE

\* the callback of prepareFlushCbFor(m): if (this.metadata === metadata)
FlushCbGuard(m) == metadata = m

\* loadNewValue(): if (this.firstLoad)
TryRestore == firstLoad

\* (variant: refresh() goes on to its get() without awaiting its flush())
AwaitPlaceSkipped(kind) == IF kind = "refresh" THEN "get" ELSE kind

\* where a call that flushed is suspended: flush() at await
\* safelyCallClear(), and refresh() at await this.flush() behind it.
AwaitPlace(kind) == kind

\* (variant: only successful outcomes are registered with the policy)
PolicyFetchesResolved(m) == autoflushManager /\ m.resolved

\* the then-callback of get(), for the outcome m it established:
\* if (this.autoflushManager) ... fetched(this.metadata, cb)
PolicyFetches(m) == autoflushManager

\* the number of suspended flush()/refresh() calls
Suspended == pend["flush"] + pend["refresh"] + pend["get"]

\* A load sequence: where it stands, what loadValue() resolved to, which
\* loader invocation it made (0: none), when that invocation was made (kept
\* while the loader runs), its outcome, what this.metadata was when its
\* callback resumed, and its promise.
NewSeq(pc, val, inv) ==
    [pc |-> pc, val |-> val, inv |-> inv,
     at |-> IF inv > 0 THEN now ELSE 0,
     meta |-> 0, seen |-> 0, res |-> Pending]

\* ------------------------------------------------------------- get()
\* (variant: the promise is not stored in the slot in the turn of get())
GetBodyLate ==
    IF ~SlotEmpty
    THEN /\ NoEmit
         /\ UNCHANGED <<promise, seqs, calls>>
    ELSE LET p == Len(seqs) + 1
             c1 == IF TryRestore THEN Bump(calls, "loadValue") ELSE calls
             toLoader == ~TryRestore \/ loadValueThrows
             c2 == IF toLoader THEN Bump(c1, "loader") ELSE c1
         IN /\ Len(seqs) < MaxLoads
            /\ Emit("before-load", promise, p)
            /\ calls' = c2
            /\ seqs' = Append(seqs,
                  IF toLoader THEN NewSeq("loader", Undefined, c2.loader)
                  ELSE NewSeq("loadValue", loadValueResult, 0))
            /\ UNCHANGED promise

\* The synchronous part of get(): with an empty slot it emits before-load,
\* runs loadNewValue() up to its first await and stores the promise.
\* loadNewValue() calls loadValue() at once; if that throws, the catch block
\* falls through to the loader in the same turn.
GetBody ==
    IF ~SlotEmpty
    THEN /\ NoEmit
         /\ UNCHANGED <<promise, seqs, calls>>
    ELSE LET p == Len(seqs) + 1
             c1 == IF TryRestore THEN Bump(calls, "loadValue") ELSE calls
             toLoader == ~TryRestore \/ loadValueThrows
             c2 == IF toLoader THEN Bump(c1, "loader") ELSE c1
         IN /\ Len(seqs) < MaxLoads
            /\ Emit("before-load", promise, p)
            /\ calls' = c2
            /\ seqs' = Append(seqs,
                  IF toLoader THEN NewSeq("loader", Undefined, c2.loader)
                  ELSE NewSeq("loadValue", loadValueResult, 0))
            /\ promise' = p

Get ==
    /\ GetBody
    /\ op' = [name |-> "get", p |-> promise', eff |-> SlotEmpty]
    /\ UNCHANGED <<cfg, now, storage, metadata, firstLoad, metas, timers,
                   pend, saved>>

\* ------------------------------------------------- the load sequence
\* The tail of the then-callback of get(), after safelyCallPersist: register
\* with the autoflush manager, emit after-load, return metadata.promise.
\* sq is the sequence's record, cur is this.metadata as read by
\* prepareFlushCbFor(this.metadata) and fetched(this.metadata, cb), ms the
\* PromiseWithMetadata objects and c the call counters. fetched(undefined, cb)
\* of DefaultAutoflushManager reads value.completedAt and throws a TypeError,
\* which rejects the promise of the sequence.
FinishEffects(p, sq, cur, ms, c) ==
    LET fetches == PolicyFetches(ms[sq.meta])
        throws == fetches /\ cur = 0
    IN /\ seqs' = [seqs EXCEPT ![p] =
              IF throws
              THEN [sq EXCEPT !.pc = "threw", !.seen = cur,
                              !.res = Rejected(TypeErrorReason)]
              ELSE [sq EXCEPT !.pc = "done", !.seen = cur,
                              !.res = ms[sq.meta].promise]]
       /\ calls' = IF fetches THEN Bump(c, "fetched") ELSE c
       /\ timers' = IF fetches /\ ~throws
                    THEN timers \cup {[meta |-> cur,
                                       at |-> TimerAt(ms[cur].completedAt),
                                       by |-> p]}
                    ELSE timers
       /\ IF throws THEN NoEmit ELSE Emit("after-load", promise, p)

\* The then-callback of get() up to its await: loadNewValue() resolved to the
\* PromiseWithMetadata m. A resolved m is handed to saveValue and the callback
\* suspends; a rejected one runs to the end of the callback in this turn.
ThenCb(p, m, c) ==
    LET mid == Len(metas) + 1
        sq == [seqs[p] EXCEPT !.meta = mid, !.at = 0]
    IN /\ metas' = Append(metas, m)
       /\ metadata' = mid
       /\ IF HasTimestampedValue(m)
          THEN /\ calls' = Bump(c, "saveValue")
               /\ saved' = Append(saved, [meta |-> mid,
                                          tv |-> timestampedValue(m)])
               /\ storage' = saveValueItem(timestampedValue(m))
               /\ seqs' = [seqs EXCEPT ![p] = [sq EXCEPT !.pc = "persist"]]
               /\ NoEmit
               /\ UNCHANGED timers
          ELSE /\ FinishEffects(p, sq, mid, metas', c)
               /\ UNCHANGED <<saved, storage>>

\* loadNewValue() resumes after await loadValue(): a TimestampedValue that
\* the autoflush manager does not report expired is the new value, anything
\* else falls through to the loader.
Restore(p) ==
    /\ seqs[p].pc = "loadValue"
    /\ LET val == seqs[p].val
           m == FromTimestampedValue(val, p)
           asks == isTimestampedValue(val) /\ autoflushManager
           c == IF asks THEN Bump(calls, "isExpired") ELSE calls
           accept == /\ isTimestampedValue(val)
                     /\ (autoflushManager => ~isExpired(m.completedAt))
       IN IF accept
          THEN ThenCb(p, m, c)
          ELSE /\ calls' = Bump(c, "loader")
               /\ seqs' = [seqs EXCEPT ![p] =
                     [@ EXCEPT !.pc = "loader", !.inv = c.loader + 1,
                               !.at = now]]
               /\ NoEmit
               /\ UNCHANGED <<storage, metadata, metas, timers, saved>>
    /\ op' = [name |-> "restore", p |-> p, eff |-> seqs'[p].pc # "loader"]
    /\ UNCHANGED <<cfg, now, promise, firstLoad, pend>>

\* The promise of the loader settles: PromiseWithMetadata.from resumes and
\* stamps the outcome with the current time.
LoaderSettles(p) ==
    /\ seqs[p].pc = "loader"
    /\ \E ok \in BOOLEAN :
          LET settled == IF ok THEN Fulfilled(seqs[p].inv)
                         ELSE Rejected(seqs[p].inv)
          IN ThenCb(p, FromPromise(settled, p), calls)
    /\ op' = [name |-> "loaderSettles", p |-> p, eff |-> seqs[p].at < now]
    /\ UNCHANGED <<cfg, now, promise, firstLoad, pend>>

\* The promise of a loader that produces no value is fulfilled with
\* undefined.
LoaderResolvesVoid(p) ==
    /\ seqs[p].pc = "loader"
    /\ ThenCb(p, FromPromise(Fulfilled(AbsentValue), p), calls)
    /\ op' = [name |-> "loaderSettles", p |-> p, eff |-> seqs[p].at < now]
    /\ UNCHANGED <<cfg, now, promise, firstLoad, pend>>

\* The then-callback resumes after await safelyCallPersist().
Finish(p) ==
    /\ seqs[p].pc = "persist"
    /\ FinishEffects(p, seqs[p], metadata, metas, calls)
    /\ op' = [name |-> "finish", p |-> p, eff |-> seqs'[p].pc = "done"]
    /\ UNCHANGED <<cfg, now, storage, promise, metadata, firstLoad, metas,
                   pend, saved>>

\* --------------------------------------------------- flush / refresh
\* The synchronous part of flush(), up to await safelyCallClear(): clear() of
\* the store is called in this turn. DefaultAutoflushManager.flushed clears
\* this.timeout, which fetched never assigns, so no timer is cancelled.
\* c is the call counters, kind tells flush() from the flush() of refresh().
FlushBody(kind, c) ==
    IF NothingToFlush
    THEN /\ calls' = c
         /\ pend' = IF kind = "refresh" THEN Bump(pend, "get") ELSE pend
         /\ NoEmit
         /\ UNCHANGED <<promise, metadata, storage>>
    ELSE /\ Emit("before-flush", promise, 0)
         /\ calls' = LET c1 == IF autoflushManager
                               THEN [Bump(c, "flushed") EXCEPT
                                        !.flushedArg = metadata]
                               ELSE c
                     IN Bump(Bump(c1, "clear"), "removed")
         /\ metadata' = FlushedMetadata
         /\ promise' = 0
         /\ storage' = clearItem
         /\ pend' = Bump(pend, AwaitPlace(kind))

Flush ==
    /\ Suspended < MaxPend
    /\ FlushBody("flush", calls)
    /\ op' = [name |-> "flush", p |-> promise, eff |-> ~NothingToFlush]
    /\ UNCHANGED <<cfg, now, firstLoad, seqs, metas, timers, saved>>

Refresh ==
    /\ Suspended < MaxPend
    /\ FlushBody("refresh", calls)
    /\ op' = [name |-> "refresh", p |-> promise, eff |-> ~NothingToFlush]
    /\ UNCHANGED <<cfg, now, firstLoad, seqs, metas, timers, saved>>

\* flush() resumes after await safelyCallClear() and emits after-flush; the
\* refresh() that awaits it resumes in a later turn. An error out of
\* safelyCallClear would end flush() there, its promise rejected.
FlushEnd(k) ==
    /\ k \in {"flush", "refresh"}
    /\ pend[k] > 0
    /\ IF safelyCallClearCatches
       THEN Emit("after-flush", promise, 0)
       ELSE NoEmit
    /\ pend' = IF k = "refresh"
               THEN [pend EXCEPT !["refresh"] = @ - 1, !["get"] = @ + 1]
               ELSE [pend EXCEPT !["flush"] = @ - 1]
    /\ op' = [name |-> "flushEnd", p |-> promise,
              eff |-> safelyCallClearCatches]
    /\ UNCHANGED <<cfg, now, storage, promise, metadata, firstLoad, seqs,
                   metas, timers, calls, saved>>

\* refresh() resumes after await this.flush() and returns this.get().
RefreshGet ==
    /\ pend["get"] > 0
    /\ GetBody
    /\ pend' = [pend EXCEPT !["get"] = @ - 1]
    /\ op' = [name |-> "refreshGet", p |-> promise', eff |-> SlotEmpty]
    /\ UNCHANGED <<cfg, now, storage, metadata, firstLoad, metas, timers,
                   saved>>

\* ------------------------------------------------------------- timers
\* A timer of DefaultAutoflushManager.fetched fires and runs the callback of
\* prepareFlushCbFor.
TimerFire(t) ==
    /\ t \in timers
    /\ now >= t.at
    /\ timers' = timers \ {t}
    /\ IF FlushCbGuard(t.meta)
       THEN FlushBody("flush", calls)
       ELSE /\ NoEmit
            /\ UNCHANGED <<promise, metadata, storage, calls, pend>>
    /\ op' = [name |-> "timer", p |-> t.meta,
              eff |-> FlushCbGuard(t.meta) /\ ~NothingToFlush]
    /\ UNCHANGED <<cfg, now, firstLoad, seqs, metas, saved>>

Tick ==
    /\ now < MaxTime
    /\ now' = now + 1
    /\ op' = [name |-> "tick", p |-> 0, eff |-> FALSE]
    /\ NoEmit
    /\ UNCHANGED <<cfg, storage, promise, metadata, firstLoad, seqs, metas,
                   timers, pend, calls, saved>>

\* ------------------------------------------------------ specification
Next ==
    \/ Get
    \/ Flush
    \/ Refresh
    \/ \E p \in DOMAIN seqs : Restore(p)
    \/ \E p \in DOMAIN seqs : LoaderSettles(p)
    \/ \E p \in DOMAIN seqs : Finish(p)
    \/ \E k \in PendPlaces : FlushEnd(k)
    \/ RefreshGet
    \/ \E t \in timers : TimerFire(t)
    \/ Tick

Spec == Init /\ [][Next]_vars

\* An instance with a time to live whose users call get() only: no flush()
\* and no refresh(). Promise callbacks are run, time passes and due timers
\* fire (the event loop runs the microtask and the timer queues).
InitAuto == Init /\ autoflushManager

NextAuto ==
    \/ Get
    \/ \E p \in DOMAIN seqs : Restore(p)
    \/ \E p \in DOMAIN seqs : LoaderSettles(p)
    \/ \E p \in DOMAIN seqs : Finish(p)
    \/ \E k \in PendPlaces : FlushEnd(k)
    \/ \E t \in timers : TimerFire(t)
    \/ Tick

FairAuto ==
    /\ WF_vars(Tick)
    /\ WF_vars(\E p \in DOMAIN seqs : Restore(p))
    /\ WF_vars(\E p \in DOMAIN seqs : Finish(p))
    /\ \A m \in 1..MaxLoads :
          WF_vars(\E t \in timers : t.meta = m /\ TimerFire(t))

SpecAuto == InitAuto /\ [][NextAuto]_vars /\ FairAuto

\* A process started over a record that an earlier run left in the store, of
\* age 0 up to the time to live, which is longer than one tick of the clock;
\* used as the instances of SpecAuto are.
InitRestored ==
    /\ cfg \in [disableEvents : {FALSE}, autoFlush : {Ttl + 1},
                persistence : {"browser", "clearFails"}]
    /\ now = InitNow
    /\ storage \in {TsValue(InitNow - age, PersistedValue) :
                        age \in 0..cfg.autoFlush}
    /\ promise = 0
    /\ metadata = 0
    /\ firstLoad = TRUE
    /\ seqs = <<>>
    /\ metas = <<>>
    /\ timers = {}
    /\ pend = [k \in PendPlaces |-> 0]
    /\ calls = ZeroCalls
    /\ events = [n \in EventNames |-> 0]
    /\ emitted = <<>>
    /\ saved = <<>>
    /\ op = [name |-> "init", p |-> 0, eff |-> FALSE]

SpecRestored == InitRestored /\ [][NextAuto]_vars /\ FairAuto

\* An instance whose loader resolves to no value, used with get() and
\* flush().
NextVoid ==
    \/ Get
    \/ Flush
    \/ \E p \in DOMAIN seqs : Restore(p)
    \/ \E p \in DOMAIN seqs : LoaderResolvesVoid(p)
    \/ \E p \in DOMAIN seqs : Finish(p)
    \/ \E k \in PendPlaces : FlushEnd(k)
    \/ \E t \in timers : TimerFire(t)
    \/ Tick

SpecVoid == Init /\ [][NextVoid]_vars

\* ============================================================ properties
Settled(p) == seqs[p].pc \in {"done", "threw"}

\* the load sequence p has not established its outcome yet
InFlight(p) == seqs[p].pc \in {"loadValue", "loader"}

\* what the promise of the loader of sequence p settled with
LoaderOutcome(p) == metas[seqs[p].meta].promise

\* no flush removed the outcome of p while p was saving it
Undisturbed(p) == seqs[p].seen = seqs[p].meta

\* C1: while no outcome has been removed (the cache is in its first epoch,
\* in particular before the first load sequence settles), any number of get()
\* calls start one load sequence only, invoke the loader at most once and
\* exactly once when the sequence did not adopt a persisted record, and each
\* get() returns the one promise of that sequence, so that all callers see
\* the one settlement of it: the loader's value or rejection reason.
C1_SingleInvocation ==
    (calls.removed = 0 /\ Len(seqs) >= 1) =>
        /\ Len(seqs) = 1
        /\ promise = 1
        /\ calls.loader <= 1
        /\ (op.name = "get" => op.p = 1)
        /\ (seqs[1].meta # 0 =>
              IF metas[seqs[1].meta].restored
              THEN calls.loader = 0
              ELSE calls.loader = 1 /\ seqs[1].inv = 1)
        /\ (seqs[1].pc = "done" /\ ~metas[seqs[1].meta].restored =>
              /\ seqs[1].res.val = 1
              /\ seqs[1].res = LoaderOutcome(1))

\* a further get() arrived while the first loader invocation was running
C1_Witness ==
    /\ calls.removed = 0
    /\ Len(seqs) = 1
    /\ seqs[1].pc = "loader"
    /\ op.name = "get"
    /\ ~op.eff
    /\ op.p = 1

\* C2: the loader is invoked at most once per epoch: the number of loader
\* invocations never exceeds one plus the number of flushes that removed an
\* outcome, which are the flushes that emitted before-flush when events are
\* enabled.
C2_OncePerEpoch ==
    /\ calls.loader <= 1 + calls.removed
    /\ (~cfg.disableEvents => events["before-flush"] = calls.removed)

\* the loader was invoked a second time, after one flush
C2_Witness == calls.loader = 2 /\ calls.removed = 1

\* C3: a get() that finds the slot occupied is a pure read: it returns the
\* promise in the slot and calls neither the loader, the store nor the
\* policy, emits nothing and changes no field of the instance.
C3_GetIsPureRead ==
    [][(op'.name \in {"get", "refreshGet"} /\ promise # 0) =>
          /\ op'.p = promise
          /\ ~op'.eff
          /\ emitted' = <<>>
          /\ UNCHANGED <<promise, metadata, firstLoad, seqs, metas, timers,
                         calls, events, storage, saved>>
          /\ (op'.name = "get" => UNCHANGED pend)]_vars

\* a get() on a completed load returned the cached promise
C3_Witness ==
    /\ op.name = "get"
    /\ ~op.eff
    /\ promise # 0
    /\ op.p = promise
    /\ seqs[promise].pc = "done"

\* C4: when the loader of a load sequence rejected with reason r, the promise
\* of that sequence rejects with exactly r, its outcome is never handed to
\* saveValue, and as long as that outcome is the current one every get()
\* returns that promise and the loader has not been invoked again.
C4_RejectionReplayed ==
    \A p \in DOMAIN seqs :
        (seqs[p].meta # 0 /\ metas[seqs[p].meta].rejected) =>
            /\ seqs[p].pc = "done"
            /\ seqs[p].inv > 0
            /\ seqs[p].res = Rejected(seqs[p].inv)
            /\ \A i \in DOMAIN saved : saved[i].meta # seqs[p].meta
            /\ (metadata = seqs[p].meta =>
                  /\ promise = p
                  /\ calls.loader = seqs[p].inv
                  /\ (op.name \in {"get", "refreshGet"} => op.p = p))

\* a get() returned the promise of a rejected load
C4_Witness ==
    /\ op.name = "get"
    /\ ~op.eff
    /\ promise # 0
    /\ seqs[promise].pc = "done"
    /\ seqs[promise].res.state = "rejected"
    /\ metadata = seqs[promise].meta

\* the stores whose clear() succeeds
ClearSucceeds == cfg.persistence \in {"noop", "browser"}

\* C5: with a store whose clear succeeds, a flush of a populated cache
\* empties the slot, so that the next get() makes a new promise; the load
\* sequence of that promise finds no record to restore, invokes the loader
\* anew and, when no further flush removes its outcome while it is being
\* saved, settles with the outcome of that new invocation, whatever state
\* the previous load is in.
C5_FlushResets ==
    ClearSucceeds =>
        /\ (op.name \in {"flush", "refresh", "timer"} /\ op.eff =>
              promise = 0 /\ metadata = 0)
        /\ (op.name \in {"get", "refreshGet"} /\ op.eff /\ calls.removed > 0 =>
              op.p = Len(seqs) /\ op.p > 1 /\ promise = op.p)
        /\ \A p \in 2..Len(seqs) :
              /\ seqs[p].val = Undefined
              /\ (seqs[p].pc # "loadValue" =>
                    \A q \in 1..(p - 1) : seqs[q].inv < seqs[p].inv)
              /\ (seqs[p].meta # 0 => ~metas[seqs[p].meta].restored)
              /\ (Settled(p) /\ Undisturbed(p) =>
                    /\ seqs[p].res = LoaderOutcome(p)
                    /\ seqs[p].res.val = seqs[p].inv)

\* after a flush of a loaded value, a second load resolved with the value of
\* the second loader invocation while the browser storage was in use
C5_Witness ==
    /\ cfg.persistence = "browser"
    /\ Len(seqs) = 2
    /\ seqs[1].res = Fulfilled(1)
    /\ seqs[2].pc = "done"
    /\ seqs[2].res = Fulfilled(2)
    /\ promise = 2

\* C6: restore from the durable store is attempted at most once per instance:
\* loadValue is called at most once, and a get() that follows a flush goes to
\* the loader without consulting the store.
C6_RestoreOnce == calls.loadValue <= 1

\* C7 as claimed: a flush() called while a load is in flight, before the
\* outcome is established, clears the promise slot.
C7_FlushInFlightClears ==
    [][(op'.name \in {"flush", "refresh"} /\ promise # 0 /\ InFlight(promise))
          => promise' = 0]_vars

\* C7 as amended: a flush() called while a load is in flight, before the
\* outcome is established, does not abort the loader and changes nothing: the
\* slot keeps the promise of the running load (which a following get()
\* returns), no event is emitted and no collaborator is called.
C7_FlushInFlightNoop ==
    [][(op'.name \in {"flush", "refresh"} /\ promise # 0 /\ InFlight(promise))
          => /\ ~op'.eff
             /\ metadata = 0
             /\ emitted' = <<>>
             /\ UNCHANGED <<promise, metadata, firstLoad, seqs, metas, timers,
                            calls, events, storage, saved>>
             /\ (op'.name = "flush" => UNCHANGED pend)]_vars

\* flush() was called while the loader was running
C7_Witness ==
    /\ op.name = "flush"
    /\ ~op.eff
    /\ promise # 0
    /\ seqs[promise].pc = "loader"

\* C8 as claimed: the promise slot is empty iff the outcome slot is empty.
C8_SlotsTogether == (promise = 0) <=> (metadata = 0)

\* C8 as amended: the outcome slot is non-empty only while the promise slot
\* holds the promise of the load sequence that established that outcome; the
\* promise slot is non-empty with an empty outcome slot exactly while its load
\* is in flight; a flush clears the two together.
C8_OutcomeWithinPromise ==
    /\ (metadata # 0 =>
          /\ promise # 0
          /\ seqs[promise].meta = metadata
          /\ ~InFlight(promise))
    /\ (metadata = 0 /\ promise # 0 => InFlight(promise))
    /\ (op.name \in {"flush", "refresh", "timer"} /\ op.eff =>
          promise = 0 /\ metadata = 0)

\* both slots are filled again after a flush had cleared them
C8_Witness ==
    /\ calls.removed > 0
    /\ metadata # 0
    /\ promise = 2

\* C9: the flush callback registered for an outcome flushes only if that
\* outcome is the current one when the timer fires; otherwise it changes no
\* field, emits no event, calls neither the policy nor the store and leaves
\* a newer outcome or a load in flight alone.
C9_StaleTimerNoop ==
    [][op'.name = "timer" =>
          /\ (op'.eff => metadata = op'.p)
          /\ (metadata # op'.p =>
                /\ ~op'.eff
                /\ emitted' = <<>>
                /\ UNCHANGED <<promise, metadata, firstLoad, seqs, metas,
                               calls, events, storage, saved, pend>>)]_vars

\* the timer of a flushed outcome fired while a newer outcome was current
C9_Witness ==
    /\ op.name = "timer"
    /\ ~op.eff
    /\ metadata # 0
    /\ metadata # op.p
    /\ promise = 2

\* C10: on the first get() of an instance with a time to live and a persisted
\* record {ts: T0, value: V}: if T0 + ttl <= now when the record is examined,
\* the record is ignored and the loader is invoked; if T0 + ttl > now the
\* record is adopted with value V and the loader is not invoked. The promise
\* of that get(), when no flush removes the outcome while it is being saved,
\* resolves to V in the second case and settles with the loader's outcome in
\* the first.
C10_RestoreAndExpire ==
    /\ [][(op'.name = "restore" /\ op'.p = 1 /\ autoflushManager
             /\ isTimestampedValue(seqs[1].val)) =>
            IF seqs[1].val.ts + Ttl <= now
            THEN /\ seqs'[1].pc = "loader"
                 /\ seqs'[1].inv = 1
                 /\ calls'.loader = 1
                 /\ metadata' = 0
            ELSE /\ seqs'[1].pc = "persist"
                 /\ metadata' = seqs'[1].meta
                 /\ metas'[metadata'].value = seqs[1].val.value
                 /\ metas'[metadata'].completedAt = seqs[1].val.ts
                 /\ calls'.loader = 0]_vars
    /\ [](Len(seqs) >= 1 /\ autoflushManager /\ isTimestampedValue(seqs[1].val)
             /\ Settled(1) /\ Undisturbed(1) =>
            IF seqs[1].inv = 0
            THEN seqs[1].res = Fulfilled(seqs[1].val.value)
            ELSE seqs[1].res = LoaderOutcome(1) /\ seqs[1].res.val = 1)

\* a record whose time to live ended at the very instant of construction
\* was ignored and the get() resolved to the value of the loader
C10_Witness ==
    /\ autoflushManager
    /\ Len(seqs) >= 1
    /\ isTimestampedValue(seqs[1].val)
    /\ seqs[1].val.ts + Ttl = InitNow
    /\ seqs[1].pc = "done"
    /\ metas[seqs[1].meta].completedAt = InitNow
    /\ seqs[1].res = Fulfilled(1)

\* C11: with no expiration policy, the first get() adopts any persisted
\* record that has a numeric ts, of whatever age and with whatever value (a
\* value member may be absent): its load sequence never invokes the loader,
\* its outcome carries the ts and the value of the record, the promise of
\* that get() resolves to exactly the persisted value, and the loader is not
\* invoked at all as long as no flush has removed that outcome.
C11_AdoptWithoutPolicy ==
    (/\ ~autoflushManager
     /\ Len(seqs) >= 1
     /\ seqs[1].val.obj
     /\ seqs[1].val.tsnum) =>
        /\ seqs[1].pc \in {"loadValue", "persist", "done"}
        /\ seqs[1].inv = 0
        /\ (seqs[1].meta # 0 =>
              /\ metas[seqs[1].meta].restored
              /\ metas[seqs[1].meta].resolved
              /\ metas[seqs[1].meta].value = seqs[1].val.value
              /\ metas[seqs[1].meta].completedAt = seqs[1].val.ts)
        /\ (Settled(1) => seqs[1].res = Fulfilled(seqs[1].val.value))
        /\ (calls.removed = 0 => calls.loader = 0)

\* a record as old as the time to live of the other instances, without a
\* value member, was adopted and the get() resolved to undefined
C11_Witness ==
    /\ ~autoflushManager
    /\ Len(seqs) >= 1
    /\ seqs[1].val = TsValue(InitNow - Ttl, AbsentValue)
    /\ seqs[1].pc = "done"
    /\ seqs[1].res = Fulfilled(AbsentValue)
    /\ calls.loader = 0

\* the stores whose loadValue, saveValue and clear all throw or all reject
StoreFails == cfg.persistence \in {"throwing", "rejecting"}

\* C12: with a store whose loadValue, saveValue and clear each throw (or each
\* reject), every load sequence still tries the store, invokes the loader and
\* hands a successful outcome to saveValue, and its promise settles with the
\* outcome of its own loader invocation (resolves to the loader's value) when
\* no flush is called while the outcome is being saved; a flush of a
\* populated cache still calls clear, empties both slots and completes
\* normally.
C12_StoreFailuresAbsorbed ==
    StoreFails =>
        /\ calls.loadValue = Len(seqs)
        /\ \A p \in DOMAIN seqs :
              /\ (seqs[p].pc # "loadValue" => seqs[p].inv > 0)
              /\ (seqs[p].meta # 0 =>
                    /\ ~metas[seqs[p].meta].restored
                    /\ (metas[seqs[p].meta].resolved =>
                          \E i \in DOMAIN saved : saved[i].meta = seqs[p].meta))
              /\ (Settled(p) /\ Undisturbed(p) =>
                    /\ seqs[p].res = LoaderOutcome(p)
                    /\ seqs[p].res.val = seqs[p].inv)
        /\ calls.clear = calls.removed
        /\ (op.name \in {"flush", "refresh", "timer"} /\ op.eff =>
              promise = 0 /\ metadata = 0 /\ calls.clear > 0)
        /\ (op.name = "flushEnd" => op.eff)

\* with the store that throws, a get() resolved to the value of the loader
\* and a flush of that outcome has completed
C12_Witness ==
    /\ cfg.persistence = "throwing"
    /\ Len(seqs) = 1
    /\ seqs[1].pc = "done"
    /\ seqs[1].res = Fulfilled(1)
    /\ calls.loadValue = 1
    /\ calls.saveValue = 1
    /\ calls.clear = 1
    /\ op.name = "flushEnd"
    /\ op.eff
    /\ promise = 0

\* C13: the promise of a load sequence rejects only if the loader of that
\* sequence rejected, and then with the loader's reason; an error thrown by
\* the expiration policy (isExpired, fetched) never rejects it.
C13_OnlyLoaderRejects ==
    \A p \in DOMAIN seqs :
        seqs[p].res.state = "rejected" =>
            /\ seqs[p].meta # 0
            /\ metas[seqs[p].meta].rejected
            /\ seqs[p].res = Rejected(seqs[p].inv)

\* the stores that keep what saveValue hands them
StoreWorks == cfg.persistence \in {"browser", "clearFails"}

\* C14: when a load sequence has established a successful outcome, saveValue
\* has been called exactly once for it, with {ts: outcome.completedAt, value:
\* outcome.value}; the step that makes the call leaves the promise of the
\* sequence pending, so the call has finished before the promise settles;
\* and at the settlement, when no flush was called in between, a store that
\* works holds exactly that record.
C14_SavedBeforeSettled ==
    \A p \in DOMAIN seqs :
        (seqs[p].meta # 0 /\ metas[seqs[p].meta].resolved) =>
            LET m == metas[seqs[p].meta]
                rec == TsValue(m.completedAt, m.value)
            IN /\ Cardinality({i \in DOMAIN saved :
                                  saved[i].meta = seqs[p].meta}) = 1
               /\ \A i \in DOMAIN saved :
                     saved[i].meta = seqs[p].meta => saved[i].tv = rec
               /\ (op.name \in {"restore", "loaderSettles"} /\ op.p = p =>
                     seqs[p].pc = "persist" /\ seqs[p].res = Pending)
               /\ (op.name = "finish" /\ op.p = p /\ Undisturbed(p)
                     /\ StoreWorks => storage = rec)

\* the promise of a get() has just resolved to the value of the loader and
\* the session storage holds the record of that outcome
C14_Witness ==
    /\ cfg.persistence = "browser"
    /\ op.name = "finish"
    /\ op.p = 1
    /\ seqs[1].res = Fulfilled(1)
    /\ saved = <<[meta |-> seqs[1].meta,
                  tv |-> TsValue(metas[seqs[1].meta].completedAt, 1)]>>
    /\ storage = saved[1].tv

\* the load sequences that emitted after-load
Announced == {p \in DOMAIN seqs : seqs[p].pc = "done"}

\* C15: with events enabled, a get() that finds the slot empty emits
\* before-load, once, in its own turn, and no after-load: when it returns
\* its load sequence is in flight and its promise pending. Each load
\* sequence emits after-load at most once, in the step that ends with the
\* settlement of its promise, so before-load has been emitted once per load
\* sequence and after-load once per sequence that announced; and a sequence
\* whose promise has settled has announced, when no flush was called while
\* its outcome was being saved.
C15_LoadEvents ==
    ~cfg.disableEvents =>
        /\ events["before-load"] = Len(seqs)
        /\ events["after-load"] = Cardinality(Announced)
        /\ (op.name \in {"get", "refreshGet"} /\ op.eff =>
              /\ emitted = <<[name |-> "before-load", slot |-> 0,
                              by |-> op.p]>>
              /\ InFlight(op.p)
              /\ seqs[op.p].res = Pending)
        /\ (op.name \in {"restore", "loaderSettles", "finish"} =>
              emitted = IF Settled(op.p) /\ op.p \in Announced
                        THEN <<[name |-> "after-load", slot |-> promise,
                                by |-> op.p]>>
                        ELSE <<>>)
        /\ \A p \in DOMAIN seqs :
              Settled(p) /\ Undisturbed(p) => p \in Announced

\* the promise of the first get() has just settled: one before-load and one
\* after-load have been emitted
C15_Witness ==
    /\ ~cfg.disableEvents
    /\ op.name = "finish"
    /\ op.p = 1
    /\ seqs[1].pc = "done"
    /\ events["before-load"] = 1
    /\ events["after-load"] = 1
    /\ emitted = <<[name |-> "after-load", slot |-> 1, by |-> 1]>>

\* C16: with events enabled, a flush() of a populated cache has emitted
\* before-flush and then after-flush, once each, when the call returns to its
\* caller.
C16_FlushEventsOnReturn ==
    (~cfg.disableEvents /\ op.name = "flush" /\ op.eff) =>
        emitted = <<[name |-> "before-flush", slot |-> op.p, by |-> 0],
                    [name |-> "after-flush", slot |-> 0, by |-> 0]>>

\* C17: a flush() called while no outcome is held (before any load has
\* established one, or after a flush) does nothing: it emits no event, calls
\* neither flushed of the policy nor clear of the store, and leaves the
\* promise slot, the persisted record and every other field as they are.
C17_FlushNothingNoop ==
    [][(op'.name \in {"flush", "refresh"} /\ metadata = 0) =>
          /\ ~op'.eff
          /\ emitted' = <<>>
          /\ calls'.flushed = calls.flushed
          /\ calls'.clear = calls.clear
          /\ UNCHANGED <<promise, metadata, storage, events, calls, firstLoad,
                         seqs, metas, timers, saved>>
          /\ (op'.name = "flush" => UNCHANGED pend)]_vars

\* flush() was called right after a completed flush, with a record still in
\* the store because clear had failed
C17_Witness ==
    /\ op.name = "flush"
    /\ ~op.eff
    /\ calls.removed = 1
    /\ calls.clear = 1
    /\ Suspended = 0
    /\ promise = 0
    /\ metadata = 0
    /\ isTimestampedValue(storage)

\* C18: with disableEvents set, no before-load, after-load, before-flush or
\* after-flush is ever emitted, whatever get(), flush(), refresh() calls and
\* timer flushes happen.
C18_EventsDisabled ==
    cfg.disableEvents =>
        /\ emitted = <<>>
        /\ \A n \in EventNames : events[n] = 0

\* with disableEvents set, a timer has just flushed the outcome of a second
\* load, which followed a flush of the first
C18_Witness ==
    /\ cfg.disableEvents
    /\ op.name = "timer"
    /\ op.eff
    /\ Len(seqs) = 2
    /\ seqs[2].pc = "done"
    /\ calls.removed = 2
    /\ promise = 0

\* C19: whenever after-flush is delivered, the promise slot is empty.
C19_AfterFlushSlotEmpty ==
    \A i \in DOMAIN emitted :
        emitted[i].name = "after-flush" => emitted[i].slot = 0

\* C20: whenever after-load is delivered, the promise slot holds the promise
\* of the load sequence that emits it.
C20_AfterLoadSlotOwn ==
    \A i \in DOMAIN emitted :
        emitted[i].name = "after-load" =>
            emitted[i].slot # 0 /\ emitted[i].slot = emitted[i].by

\* how many of the load sequences before p invoked the loader
LoaderRunsBefore(p) == Cardinality({q \in 1..(p - 1) : seqs[q].inv > 0})

C22_AutoFlushEventually ==
    /\ [][(metadata # 0 /\ metadata' # metadata) =>
            /\ op'.name = "timer"
            /\ op'.eff
            /\ op'.p = metadata
            /\ metadata' = 0
            /\ promise' = 0
            /\ now >= metas[metadata].completedAt + Ttl]_vars
    /\ [](\A p \in 2..Len(seqs) :
             /\ calls.removed >= p - 1
             /\ (seqs[p].pc # "loadValue" =>
                   seqs[p].inv = LoaderRunsBefore(p) + 1)
             /\ (Settled(p) =>
                   /\ seqs[p].res = LoaderOutcome(p)
                   /\ seqs[p].res.val = seqs[p].inv))
    /\ \A m \in 1..MaxLoads :
          (/\ m \in DOMAIN metas
           /\ metadata = m
           /\ metas[m].completedAt + Ttl <= MaxTime) ~> (metadata # m)

\* after the timer had flushed the first outcome, a second get() resolved
\* to the value of a second loader invocation
C22_Witness ==
    /\ Len(seqs) = 2
    /\ seqs[1].pc = "done"
    /\ calls.removed = 1
    /\ calls.flushed = 1
    /\ seqs[2].pc = "done"
    /\ seqs[2].res = Fulfilled(seqs[2].inv)
    /\ seqs[2].inv = calls.loader

\* C23: the outcome of a loader invocation is stamped with the time at which
\* the promise of the loader settled, whenever the loader was invoked; the
\* timer registered for it is due ttl after that time, and an automatic flush
\* of the outcome never happens earlier than that.
C23_StampedAtSettlement ==
    /\ (op.name = "loaderSettles" =>
          /\ seqs[op.p].meta # 0
          /\ ~metas[seqs[op.p].meta].restored
          /\ metas[seqs[op.p].meta].completedAt = now)
    /\ \A t \in timers :
          ~metas[t.meta].restored =>
              t.at >= metas[t.meta].completedAt + Ttl
    /\ (op.name = "timer" /\ op.eff /\ ~metas[op.p].restored =>
          now >= metas[op.p].completedAt + Ttl)

\* a loader that ran while the clock advanced has just rejected: its outcome
\* carries the time of the rejection and its timer is due ttl later
C23_Witness ==
    /\ op.name = "loaderSettles"
    /\ op.eff
    /\ seqs[op.p].pc = "done"
    /\ metas[seqs[op.p].meta].completedAt = now
    /\ now > InitNow
    /\ \E t \in timers : t.meta = seqs[op.p].meta /\ t.at = now + Ttl

\* C24: a loader that resolves to no value produces a successful outcome
\* with that value: its promise resolves to exactly undefined (when no flush
\* is called while the outcome is being saved), and as long as that outcome
\* is the current one every get() returns that promise and the loader has
\* not been invoked again.
C24_VoidIsCached ==
    /\ calls.loader <= 1 + calls.removed
    /\ \A p \in DOMAIN seqs :
          (seqs[p].meta # 0 /\ ~metas[seqs[p].meta].restored) =>
              /\ metas[seqs[p].meta].resolved
              /\ ~metas[seqs[p].meta].rejected
              /\ metas[seqs[p].meta].value = AbsentValue
              /\ (Settled(p) /\ Undisturbed(p) =>
                    seqs[p].res = Fulfilled(AbsentValue))
              /\ (metadata = seqs[p].meta =>
                    /\ promise = p
                    /\ calls.loader = seqs[p].inv
                    /\ (op.name = "get" => op.p = p /\ ~op.eff))

\* a later get() returned the promise that had resolved to undefined, the
\* loader having been invoked once
C24_Witness ==
    /\ op.name = "get"
    /\ ~op.eff
    /\ promise = 1
    /\ seqs[1].pc = "done"
    /\ seqs[1].inv = 1
    /\ seqs[1].res = Fulfilled(AbsentValue)
    /\ calls.loader = 1

\* C25: a rejected outcome is registered with the policy like a successful
\* one: while it is the current outcome a timer due at its completedAt + ttl
\* is pending for it; it is removed by that timer, not before completedAt +
\* ttl, and eventually if that time lies within the time the clock reaches;
\* the load sequence of the next get() invokes the loader again and its
\* promise settles with the outcome of that invocation, not with the old
\* rejection.
C25_RejectionExpires ==
    /\ [](\A m \in DOMAIN metas :
             (metas[m].rejected /\ metadata = m) =>
                 \E t \in timers :
                     t.meta = m /\ t.at = metas[m].completedAt + Ttl)
    /\ [](op.name = "timer" /\ op.eff /\ metas[op.p].rejected =>
             /\ now >= metas[op.p].completedAt + Ttl
             /\ metadata = 0
             /\ promise = 0)
    /\ [](\A p \in 2..Len(seqs) :
             metas[seqs[p - 1].meta].rejected =>
                 /\ (seqs[p].pc # "loadValue" =>
                       seqs[p].inv = seqs[p - 1].inv + 1)
                 /\ (Settled(p) =>
                       /\ seqs[p].res = LoaderOutcome(p)
                       /\ seqs[p].res.val = seqs[p].inv))
    /\ \A m \in 1..MaxLoads :
          (/\ m \in DOMAIN metas
           /\ metadata = m
           /\ metas[m].rejected
           /\ metas[m].completedAt + Ttl <= MaxTime) ~> (metadata = 0)

\* the timer had flushed a rejection and the second get() resolved to the
\* value of the second loader invocation
C25_Witness ==
    /\ Len(seqs) = 2
    /\ seqs[1].res = Rejected(1)
    /\ calls.removed = 1
    /\ calls.fetched = 2
    /\ seqs[2].pc = "done"
    /\ seqs[2].res = Fulfilled(2)

\* C26: an instance whose autoFlush is absent, zero or negative has no
\* expiration policy: isExpired, fetched and flushed are never called and no
\* timer is ever pending or fires; a well-formed record read from the store
\* is adopted whatever its age, the loader is not invoked for that load; and
\* the current outcome is removed only by a step of flush() or refresh().
C26_NoPolicyNoExpiry ==
    /\ [](cfg.autoFlush <= 0 =>
             /\ timers = {}
             /\ op.name # "timer"
             /\ calls.isExpired = 0
             /\ calls.fetched = 0
             /\ calls.flushed = 0
             /\ \A p \in DOMAIN seqs :
                   (seqs[p].pc # "loadValue" /\ seqs[p].val.obj
                        /\ seqs[p].val.tsnum) =>
                       /\ seqs[p].inv = 0
                       /\ seqs[p].meta # 0
                       /\ metas[seqs[p].meta].restored
                       /\ metas[seqs[p].meta].completedAt = seqs[p].val.ts)
    /\ [][(cfg.autoFlush <= 0 /\ metadata # 0 /\ metadata' # metadata) =>
             /\ op'.name \in {"flush", "refresh"}
             /\ op'.eff
             /\ metadata' = 0]_vars

\* with a negative autoFlush a record as old as the time to live of the
\* other instances was adopted, stayed until the end of the clock and was
\* then removed by a flush()
C26_Witness ==
    /\ cfg.autoFlush < 0
    /\ Len(metas) = 1
    /\ metas[1].restored
    /\ metas[1].completedAt = InitNow - Ttl
    /\ now = MaxTime
    /\ op.name = "flush"
    /\ op.eff
    /\ calls.removed = 1

\* C27: a load sequence begun after a flush of a populated cache (every
\* sequence but the first) invokes the loader once it has heard from the
\* store, and its outcome is never one restored from the store.
C27_NoRestoreAfterFlush ==
    \A p \in 2..Len(seqs) :
        seqs[p].pc # "loadValue" =>
            /\ seqs[p].inv > 0
            /\ (seqs[p].meta # 0 => ~metas[seqs[p].meta].restored)

\* C28: an outcome built from a record of the store has the record's ts as
\* its completion time and the record's value as its value, and the record
\* handed to saveValue for it is the record that was read: same ts, same
\* value. With a browser storage the item is that record after the save.
C28_RestoreKeepsTimestamp ==
    /\ \A m \in DOMAIN metas :
          metas[m].restored =>
              /\ metas[m].completedAt = seqs[metas[m].by].val.ts
              /\ metas[m].value = seqs[metas[m].by].val.value
              /\ metas[m].promise = Fulfilled(seqs[metas[m].by].val.value)
    /\ \A i \in DOMAIN saved :
          metas[saved[i].meta].restored =>
              saved[i].tv = seqs[metas[saved[i].meta].by].val
    /\ (op.name = "restore" /\ op.eff /\ cfg.persistence = "browser" =>
          storage = seqs[op.p].val)

\* a record older than the current time was adopted and written back to the
\* browser storage with its old ts
C28_Witness ==
    /\ op.name = "restore"
    /\ op.eff
    /\ cfg.persistence = "browser"
    /\ Len(saved) = 1
    /\ metas[saved[1].meta].restored
    /\ saved[1].tv.ts < now
    /\ storage.ts < now

\* C29: a restored outcome of persisted timestamp T0 is removed by a timer
\* counted from T0: once the outcome is registered, a timer is pending for
\* it that is due at T0 + ttl (or at once, if that time has passed by the
\* time of registration), never a whole ttl after the restore; the timer
\* removes the outcome no earlier than T0 + ttl, and eventually when that
\* time is within the time the clock reaches; the load sequence after a
\* restored outcome invokes the loader.
C29_RestoredExpiresFromT0 ==
    /\ [](\A m \in DOMAIN metas :
             (/\ metas[m].restored
              /\ metadata = m
              /\ seqs[metas[m].by].pc = "done") =>
                 \E t \in timers :
                     /\ t.meta = m
                     /\ t.at >= metas[m].completedAt + cfg.autoFlush
                     /\ t.at <= Max(now, metas[m].completedAt
                                            + cfg.autoFlush))
    /\ [](op.name = "timer" /\ op.eff /\ metas[op.p].restored =>
             /\ now >= metas[op.p].completedAt + cfg.autoFlush
             /\ metadata = 0
             /\ promise = 0)
    /\ [](\A p \in 2..Len(seqs) :
             (/\ seqs[p - 1].meta # 0
              /\ metas[seqs[p - 1].meta].restored
              /\ seqs[p].pc # "loadValue") => seqs[p].inv = 1)
    /\ \A m \in 1..MaxLoads :
          (/\ m \in DOMAIN metas
           /\ metadata = m
           /\ metas[m].restored
           /\ metas[m].completedAt + cfg.autoFlush <= MaxTime)
              ~> (metadata # m)

\* a record older than the start of the process was adopted, removed by its
\* timer at T0 + ttl, less than a ttl after the start, and the next get()
\* reached the loader
C29_Witness ==
    /\ Len(seqs) = 2
    /\ metas[1].restored
    /\ metas[1].completedAt < InitNow
    /\ calls.removed = 1
    /\ now = metas[1].completedAt + cfg.autoFlush
    /\ now < InitNow + cfg.autoFlush
    /\ seqs[2].inv = 1
    /\ calls.loader = 1

\* C30: with a policy, flushed has been called once for every outcome
\* removed, and the outcome passed to its latest call is the one that call
\* removed, an outcome that had been given to fetched by then.
C30_FlushedOncePerRemoval ==
    autoflushManager =>
        /\ calls.flushed = calls.removed
        /\ (calls.flushed > 0 =>
              /\ calls.flushedArg \in DOMAIN metas
              /\ calls.flushedArg # metadata
              /\ \E p \in DOMAIN seqs :
                    /\ seqs[p].pc = "done"
                    /\ seqs[p].seen = calls.flushedArg)

\* C31: with a policy, every load sequence that has run its callback to the
\* end has called fetched with the outcome it established itself, and no
\* outcome has been given to fetched by more than one call.
C31_FetchedOncePerOutcome ==
    autoflushManager =>
        /\ \A p \in DOMAIN seqs :
              seqs[p].pc \in {"done", "threw"} =>
                  seqs[p].seen = seqs[p].meta
        /\ \A m \in DOMAIN metas :
              Cardinality({p \in DOMAIN seqs :
                              /\ seqs[p].pc \in {"done", "threw"}
                              /\ seqs[p].seen = m}) <= 1

\* C32: every pending timer belongs to the current outcome, so none is left
\* for an outcome that was flushed, and a timer that fires finds its outcome
\* current: the callback of a flushed outcome never runs.
C32_FlushCancelsTimer ==
    /\ \A t \in timers : t.meta = metadata
    /\ (op.name = "timer" => op.eff)

\* C33: a load sequence whose outcome was flushed while its save was pending
\* (its callback resumed with this.metadata no longer its own outcome) ends
\* without throwing, its promise settles as the promise of its outcome did,
\* and it has called fetched neither with undefined nor with a newer
\* outcome.
C33_FlushedSequenceHarmless ==
    \A p \in DOMAIN seqs :
        (/\ seqs[p].pc \in {"done", "threw"}
         /\ seqs[p].seen # seqs[p].meta) =>
            /\ seqs[p].pc = "done"
            /\ seqs[p].res = metas[seqs[p].meta].promise
            /\ ~PolicyFetches(metas[seqs[p].meta])

\* C34: the flush callback never runs inside fetched: a step of a load
\* sequence emits no before-flush, and when a timer removes an outcome, the
\* load sequence that established that outcome has emitted its after-load
\* and settled its promise.
C34_AutoFlushAfterLoad ==
    /\ (op.name \in {"restore", "loaderSettles", "finish"} =>
          \A i \in DOMAIN emitted : emitted[i].name # "before-flush")
    /\ (op.name = "timer" /\ op.eff =>
          /\ seqs[metas[op.p].by].pc = "done"
          /\ seqs[metas[op.p].by].res # Pending)

\* C35: with events enabled, after-load has been emitted at most as often as
\* before-load, and once for every load sequence whose callback has ended:
\* no sequence ends without its after-load.
C35_BeforeLoadThenAfterLoad ==
    ~cfg.disableEvents =>
        /\ events["after-load"] <= events["before-load"]
        /\ events["before-load"] = Len(seqs)
        /\ events["after-load"] =
              Cardinality({p \in DOMAIN seqs :
                              seqs[p].pc \in {"done", "threw"}})

====
